---- MODULE Spec2Model ----
(***************************************************************************)
(* A model of the two dependency-injection containers of go_autowired.     *)
(*                                                                         *)
(* The Scope-based container (src/unnamed/part_001): Register, Resolve     *)
(* with its recursive resolution of constructor parameters, the three      *)
(* scopes, lifecycle hooks, Destroy and ClearRequestScoped, called from    *)
(* several goroutines.  Every goroutine is a stack of Resolve frames;      *)
(* every step of a frame that reads or writes shared state (the resolving  *)
(* set, the registration store, a sync.Once, an instance slot, an instance *)
(* pool) is one action.                                                    *)
(*                                                                         *)
(* The Lifetime-based container (src/autowired.go): RegisterNamedWithHooks,*)
(* ResolveNamed with resolveDependencies, CreateScope, DestroyScope, Start *)
(* and Stop.                                                               *)
(*                                                                         *)
(* Both files declare package autowired and its type Container, so a       *)
(* program is built with one of them: engine says which.                   *)
(***************************************************************************)
EXTENDS Integers, Sequences, FiniteSets, TLC

(***************************************************************************)
(* Bounds of the model.                                                    *)
(***************************************************************************)
NumThreads == 2
MaxRegs == 2
MaxCalls == 2        \* Resolve, Destroy and AutoWire calls (ResolveNamed calls) on one Container
MaxDestroys == 1
MaxWires == 1
NumKeys == 2
MaxStarts == 2
MaxWork == 3         \* ResolveNamed, Start and DestroyScope calls made on one Container
NumScopes == 2

Threads == 1..NumThreads
Keys == 1..NumKeys

(***************************************************************************)
(* Scope (part_001 lines 12-18).                                           *)
(***************************************************************************)
Singleton == 0
Prototype == 1
Request == 2
Scopes == {Singleton, Prototype, Request}

(***************************************************************************)
(* Types (the reflect.Type keys) and names.  A name is a sequence of       *)
(* characters, so that getDefaultName computes what the code computes.     *)
(***************************************************************************)
Types == {"A", "B"}

TypeName(t) == <<t>>

ToLower(ch) ==
  CASE ch = "A" -> "a"
    [] ch = "B" -> "b"
    [] OTHER -> ch

toCamelCase(s) == IF s = <<>> THEN s ELSE <<ToLower(s[1])>> \o Tail(s)

getDefaultName(t) == toCamelCase(TypeName(t))

NoName == <<>>
NameOpts == {NoName, <<"x">>, <<"y">>}
StoreNames == {getDefaultName(t) : t \in Types} \cup (NameOpts \ {NoName})

(***************************************************************************)
(* Constructors, as Register and construct see them through reflection:    *)
(* whether the value is a function, its parameter types, its result types, *)
(* and whether a call of it returns a non-nil error.                       *)
(***************************************************************************)
Ctor(f, in, out, fails) == [isFunc |-> f, in |-> in, out |-> out, fails |-> fails]

NewA == Ctor(TRUE, <<>>, <<"A">>, FALSE)
NewAErr == Ctor(TRUE, <<>>, <<"A", "error">>, TRUE)
NewAOk == Ctor(TRUE, <<>>, <<"A", "error">>, FALSE)
NewAFromB == Ctor(TRUE, <<"B">>, <<"A">>, FALSE)
NewBFromA == Ctor(TRUE, <<"A">>, <<"B">>, FALSE)
NewB == Ctor(TRUE, <<>>, <<"B">>, FALSE)
NewAFromA == Ctor(TRUE, <<"A">>, <<"A">>, FALSE)
NewBFromAA == Ctor(TRUE, <<"A", "A">>, <<"B">>, FALSE)
NotAFunction == Ctor(FALSE, <<>>, <<>>, FALSE)
NoResult == Ctor(TRUE, <<>>, <<>>, FALSE)
SecondNotError == Ctor(TRUE, <<>>, <<"A", "int">>, FALSE)
ThreeResults == Ctor(TRUE, <<>>, <<"A", "error", "int">>, FALSE)

(***************************************************************************)
(* Hook bundles passed as a Register option.  conv: whether the value's    *)
(* type is convertible to LifecycleHooks[interface{}]; methods: the        *)
(* method set of the value's type; lh: whether it is a LifecycleHooks[T]   *)
(* value with the three function fields set.  LifecycleHooks declares      *)
(* OnInit, OnStart and OnDestroy as fields and has no methods; a struct    *)
(* converts to another only when the field types are identical, so only    *)
(* the instantiation at interface{} converts.  No convertible value has a  *)
(* method named after a hook: its type has the three names as fields, and  *)
(* Go rejects a type whose method has the name of one of its fields.       *)
(***************************************************************************)
HookNames == {"OnInit", "OnStart", "OnDestroy"}
NoHooks == [given |-> FALSE, lh |-> FALSE, conv |-> FALSE, methods |-> {}, fail |-> {}]
HooksOfT == [given |-> TRUE, lh |-> TRUE, conv |-> FALSE, methods |-> {}, fail |-> {}]
HooksOfAny == [given |-> TRUE, lh |-> TRUE, conv |-> TRUE, methods |-> {}, fail |-> {}]

(***************************************************************************)
(* The reflect.Value stored in dependencyInfo.hooks: the zero Value        *)
(* (valid = FALSE) unless an option converted.                             *)
(***************************************************************************)
InvalidValue == [valid |-> FALSE, methods |-> {}, fail |-> {}]

(***************************************************************************)
(* The inputs of the calls made: Resolve's (type, name option), Register's *)
(* constructor and options.                                                *)
(***************************************************************************)
ResolveInputs == {<<"A", NoName>>, <<"A", <<"x">>>>, <<"A", <<"y">>>>, <<"B", NoName>>}

Reg(c, n, s, h) == [ctor |-> c, name |-> n, scope |-> s, hooks |-> h]

RegInputs ==
  { Reg(NewA, NoName, Singleton, NoHooks),
    Reg(NewA, NoName, Prototype, NoHooks),
    Reg(NewA, NoName, Request, NoHooks),
    Reg(NewA, <<"x">>, Singleton, NoHooks),
    Reg(NewA, <<"y">>, Singleton, NoHooks),
    Reg(NewAFromA, <<"x">>, Singleton, NoHooks),
    Reg(NewA, NoName, Singleton, HooksOfT),
    Reg(NewA, NoName, Singleton, HooksOfAny),
    Reg(NewA, NoName, Prototype, HooksOfAny),
    Reg(NewAErr, NoName, Singleton, NoHooks),
    Reg(NewAFromB, NoName, Singleton, NoHooks),
    Reg(NewBFromA, NoName, Singleton, NoHooks),
    Reg(NewBFromAA, NoName, Singleton, NoHooks),
    Reg(NewB, NoName, Singleton, NoHooks),
    Reg(NotAFunction, NoName, Singleton, NoHooks),
    Reg(NoResult, NoName, Singleton, NoHooks),
    Reg(SecondNotError, NoName, Singleton, NoHooks),
    Reg(ThreeResults, NoName, Singleton, NoHooks) }

VARIABLES
  dependencies,  \* Container.dependencies: (type, name) -> dependencyInfo (0: none)
  infos,         \* the dependencyInfo objects ever allocated, by address
  resolving,     \* Container.resolving: the set of keys of the sync.Map
  stacks,        \* per goroutine: its Resolve frames, innermost first
  insts,         \* the instances constructors have returned: insts[i] = the info
  hookLog,       \* the hook calls made, in order: <<hook name, instance>>
  calls,         \* the top-level Resolve calls made, in order of their start
  lastRegister,  \* the Register calls made: their number, the last one's result
  lastDestroy,   \* the Destroy calls made: their number, the last one's result
  wires,         \* the AutoWire calls made, in order of start, with the fields set
  engine,        \* the container the program is built with
  registrations, \* autowired.go Container.registrations: node -> Registration
  mu,            \* autowired.go Container.mu: free, or write-locked by a
                 \* RegisterNamedWithHooks call; or the runtime's fatal error
  singletons,    \* autowired.go Container.singletons: node -> instance (0: none)
  startedFlag,   \* autowired.go Container.startedFlag: the nodes flagged
  graph,         \* autowired.go Container.graph: node -> the nodes it depends on
  scopes,        \* the Scope objects made by CreateScope, in order
  work,          \* per goroutine: the ResolveNamed or Start call it is in
  linsts,        \* the instances constructors have returned, with their node,
                 \* Registration, Init result, context, ResolveNamed call
                 \* (0: a Start pass), constructor arguments, Scope's gen, and
                 \* whether that Registration was still the node's (current)
  lhookLog,      \* the hook calls made, in order: <<hook, instance, operation>>
  lcalls,        \* the top-level ResolveNamed calls made, in order of start
  lhist          \* the numbers of RegisterNamedWithHooks and of Start calls made

svars == <<dependencies, infos, resolving, stacks, insts, hookLog, calls,
           lastRegister, lastDestroy, wires>>

lvars == <<registrations, mu, singletons, startedFlag, graph, scopes, work, linsts,
           lhookLog, lcalls, lhist>>

vars == <<svars, engine, lvars>>

NoErr == "nil"

(***************************************************************************)
(* processOptions: the name, scope and hooks of a registration.            *)
(***************************************************************************)
processOptions(typ, r) ==
  [ name |-> IF r.name = NoName THEN getDefaultName(typ) ELSE r.name,
    scope |-> r.scope,
    hooks |-> IF r.hooks.given /\ r.hooks.conv
                THEN [valid |-> TRUE, methods |-> r.hooks.methods, fail |-> r.hooks.fail]
                ELSE InvalidValue ]

(***************************************************************************)
(* Register's check of the constructor's shape.                            *)
(***************************************************************************)
RegisterError(ctor) ==
  IF ~ctor.isFunc THEN "constructor must be a function"
  ELSE IF Len(ctor.out) = 0 \/ (Len(ctor.out) = 2 /\ ctor.out[2] # "error")
    THEN "constructor must return (T) or (T, error)"
  ELSE NoErr

NewInfo_Inherits(r, o) ==
  LET old == dependencies[<<r.ctor.out[1], o.name>>] IN
  [ typ |-> r.ctor.out[1], name |-> o.name, constructor |-> r.ctor,
    scope |-> o.scope, hooks |-> o.hooks,
    instance |-> IF old # 0 THEN infos[old].instance ELSE 0,
    initOnce |-> IF old # 0 THEN infos[old].initOnce ELSE "new",
    instancePool |-> IF old # 0 THEN infos[old].instancePool ELSE [k \in {} |-> 0],
    runs |-> 0, given |-> r.hooks, served |-> [t \in {} |-> 0], clearedAt |-> 0 ]

NewInfo(r, o) ==
  [ typ |-> r.ctor.out[1], name |-> o.name, constructor |-> r.ctor,
    scope |-> o.scope, hooks |-> o.hooks,
    instance |-> 0, initOnce |-> "new", instancePool |-> [k \in {} |-> 0],
    runs |-> 0, given |-> r.hooks, served |-> [t \in {} |-> 0], clearedAt |-> 0 ]

Register(r) ==
  /\ engine = "scope"
  /\ lastRegister.n < MaxRegs
  /\ lastRegister' = [n |-> lastRegister.n + 1, input |-> r, err |-> RegisterError(r.ctor)]
  /\ IF RegisterError(r.ctor) # NoErr
       THEN UNCHANGED <<dependencies, infos>>
       ELSE LET typ == r.ctor.out[1]
                o == processOptions(typ, r)
            IN /\ infos' = Append(infos, NewInfo(r, o))
               /\ dependencies' = [dependencies EXCEPT ![<<typ, o.name>>] = Len(infos) + 1]
  /\ UNCHANGED <<engine, lvars, wires, resolving, stacks, insts, hookLog, calls, lastDestroy>>

(***************************************************************************)
(* A Resolve frame.  pc is the place the frame has reached:                *)
(*   "params"    in construct, resolving the next constructor parameter    *)
(*   "call"      all parameters resolved; constructor.Call next            *)
(*   "ret"       the result (inst, err) is set; the return is next         *)
(*   "wait"      in initOnce.Do, waiting for the running Once to be done   *)
(* marked: this frame stored the type in Container.resolving, so that its  *)
(* deferred Delete runs at the return.                                     *)
(***************************************************************************)
Frame(typ, name) ==
  [ typ |-> typ, name |-> name, pc |-> "ret", marked |-> FALSE, info |-> 0,
    key |-> 0, args |-> <<>>, inst |-> 0, err |-> NoErr, ran |-> FALSE ]

Top(t) == Head(stacks[t])

Busy(t) == stacks[t] # <<>>

Pending == {c \in 1..Len(calls) : calls[c].state = "pending"}

CallOf(t) == CHOOSE c \in Pending : calls[c].thread = t

(***************************************************************************)
(* getDependencyInfo: the registration a (type, name) pair resolves to.    *)
(***************************************************************************)
LookupName(typ, name) == IF name = NoName THEN getDefaultName(typ) ELSE name

getDependencyInfo_DefaultOnly(typ, name) == dependencies[<<typ, getDefaultName(typ)>>]

getDependencyInfo(typ, name) ==
  IF LookupName(typ, name) \in StoreNames
    THEN dependencies[<<typ, LookupName(typ, name)>>]
    ELSE 0

(***************************************************************************)
(* construct begins with resolveConstructorParams: with no parameter left  *)
(* to resolve the constructor call is next.                                *)
(***************************************************************************)
InConstruct(f) ==
  IF Len(f.args) < Len(infos[f.info].constructor.in)
    THEN [f EXCEPT !.pc = "params"]
    ELSE [f EXCEPT !.pc = "call"]

(***************************************************************************)
(* getGoroutineID returns the address of a channel it has just made: any   *)
(* address the allocator may hand out, whatever goroutine asks.            *)
(***************************************************************************)
getGoroutineID(t) == Keys

(***************************************************************************)
(* resolveDependency up to the call of construct.  resolveSingleton: the   *)
(* first caller of initOnce.Do runs construct, a caller after the Once is  *)
(* done returns what info.instance holds, and a caller that finds the Once *)
(* running waits in Do until it is done (pc "wait").  resolveRequest: the  *)
(* pool is read under the key.                                             *)
(***************************************************************************)
OnceDoRuns_Always(i) == TRUE

OnceDoRuns(i) == i.initOnce = "new"

resolveDependency(t, f, key) ==
  LET i == infos[f.info] IN
  IF i.scope = Singleton
    THEN IF OnceDoRuns(i) THEN InConstruct(f)
         ELSE IF i.initOnce = "running" THEN [f EXCEPT !.pc = "wait"]
         ELSE [f EXCEPT !.pc = "ret", !.inst = i.instance]
  ELSE IF i.scope = Prototype THEN InConstruct(f)
  ELSE IF key \in DOMAIN i.instancePool
    THEN [f EXCEPT !.pc = "ret", !.inst = i.instancePool[key]]
    ELSE InConstruct([f EXCEPT !.key = key])

(***************************************************************************)
(* Resolve up to the call of construct: LoadOrStore on                     *)
(* Container.resolving, keyed by the type alone; getDependencyInfo under   *)
(* the read lock; resolveDependency.  The three are one step: until the    *)
(* frame returns no other goroutine passes LoadOrStore for the type, and   *)
(* Register, Destroy and ClearRequestScoped, which hold the write lock,    *)
(* act the same before the step as between its parts.                      *)
(***************************************************************************)
LoadOrStoreLoaded_Never(typ) == FALSE

LoadOrStoreLoaded(typ) == typ \in resolving

Enter(t, typ, name, key) ==
  IF LoadOrStoreLoaded(typ)
    THEN [Frame(typ, name) EXCEPT !.err = "circular"]
  ELSE IF getDependencyInfo(typ, name) = 0
    THEN [Frame(typ, name) EXCEPT !.marked = TRUE, !.err = "unregistered"]
  ELSE resolveDependency(t,
         [Frame(typ, name) EXCEPT !.marked = TRUE, !.info = getDependencyInfo(typ, name)],
         key)

MarkedAfter(typ) == resolving \cup {typ}

OnceAfter(f) ==
  IF f.pc \in {"params", "call"} /\ infos[f.info].scope = Singleton
    THEN [infos EXCEPT ![f.info].initOnce = "running"]
    ELSE infos

(***************************************************************************)
(* Goroutines are interchangeable: goroutine t + 1 makes its first call    *)
(* only after goroutine t has made one.                                    *)
(***************************************************************************)
(***************************************************************************)
(* AutoWire's target: a pointer to a struct, given by its fields in order. *)
(* A field has a type, is settable (exported) or not, and has a struct tag *)
(* in which the key autowire is absent or present with a value; Tag.Get    *)
(* gives the value, and the empty string when the key is absent.           *)
(***************************************************************************)
Tag(value) == [present |-> TRUE, value |-> value]

NoTag == [present |-> FALSE, value |-> <<>>]

TagGet(tag) == IF tag.present THEN tag.value ELSE <<>>

Field(typ, tag, canSet) == [typ |-> typ, tag |-> tag, canSet |-> canSet]

Target(fields) == [isStructPtr |-> TRUE, fields |-> fields]

\* struct { Service *A `autowire:""` }, the TestApp of TestAutoWire
TestApp == Target(<<Field("A", Tag(<<>>), TRUE)>>)

\* struct { Skipped *A `autowire:"-"` }
SkipApp == Target(<<Field("A", Tag(<<"-">>), TRUE)>>)

\* struct { Named *A `autowire:"x"`; Plain *A; hidden *A `autowire:"x"` }
NamedApp ==
  Target(<<Field("A", Tag(<<"x">>), TRUE), Field("A", NoTag, TRUE),
           Field("A", Tag(<<"x">>), FALSE)>>)

\* a value that is not a pointer to a struct
NotAStructPointer == [isStructPtr |-> FALSE, fields |-> <<>>]

Targets == {TestApp, SkipApp, NamedApp, NotAStructPointer}

(***************************************************************************)
(* A goroutine is inside AutoWire from the call to its return.             *)
(***************************************************************************)
Wiring(t) == \E w \in DOMAIN wires : wires[w].thread = t /\ wires[w].state = "running"

WireOf(t) == CHOOSE w \in DOMAIN wires : wires[w].thread = t /\ wires[w].state = "running"

(***************************************************************************)
(* The loop body of AutoWire up to the Resolve call (lines 293-309): a     *)
(* field that cannot be set, or whose tag value is empty, is passed over;  *)
(* for any other field Resolve is called with the field's type, and with   *)
(* the tag value as the name unless the value is "-".                      *)
(***************************************************************************)
PassedOver(field) == ~field.canSet \/ TagGet(field.tag) = <<>>

WireOptions(tag) == IF TagGet(tag) # <<"-">> THEN TagGet(tag) ELSE NoName

ToResolve(target) == {k \in DOMAIN target.fields : ~PassedOver(target.fields[k])}

\* The Resolve calls the running AutoWire calls are still to make.
StillToResolve(w) ==
  IF wires[w].state # "running" THEN {}
  ELSE {k \in ToResolve(wires[w].target) : k >= wires[w].idx /\ k \notin wires[w].resolved}

RECURSIVE Reserved(_)
Reserved(n) == IF n = 0 THEN 0 ELSE Cardinality(StillToResolve(n)) + Reserved(n - 1)

\* The Resolve, Destroy and AutoWire calls made so far or still to be made
\* by a running AutoWire call.
Work == Len(calls) + lastDestroy.n + Len(wires) + Reserved(Len(wires))

Used(t) ==
  \/ \E c \in 1..Len(calls) : calls[c].thread = t
  \/ \E w \in DOMAIN wires : wires[w].thread = t

BeginResolve(t, typ, name) ==
  /\ \E key \in getGoroutineID(t) :
       LET f == Enter(t, typ, name, key) IN
       /\ stacks' = [stacks EXCEPT ![t] = <<f>>]
       /\ infos' = OnceAfter(f)
  /\ resolving' = MarkedAfter(typ)
  /\ calls' = Append(calls,
        [ thread |-> t, typ |-> typ, name |-> name, state |-> "pending",
          info |-> 0, inst |-> 0, err |-> NoErr, ran |-> FALSE,
          open |-> Pending, regs |-> lastRegister.n,
          target |-> getDependencyInfo(typ, name),
          fresh |-> /\ getDependencyInfo(typ, name) # 0
                    /\ infos[getDependencyInfo(typ, name)].initOnce = "new",
          prev |-> 0,
          clearedAt |-> IF getDependencyInfo(typ, name) # 0
                          THEN infos[getDependencyInfo(typ, name)].clearedAt ELSE 0 ])

StartResolve(t, typ, name) ==
  /\ engine = "scope"
  /\ ~Busy(t)
  /\ ~Wiring(t)
  /\ t > 1 => Used(t - 1)
  /\ Work < MaxCalls
  /\ BeginResolve(t, typ, name)
  /\ UNCHANGED <<engine, lvars, wires, dependencies, insts, hookLog, lastRegister, lastDestroy>>

(***************************************************************************)
(* resolveConstructorParams: Resolve of the next parameter's type, with no *)
(* name.                                                                   *)
(***************************************************************************)
Param(t) ==
  /\ engine = "scope"
  /\ Busy(t)
  /\ Top(t).pc = "params"
  /\ LET pt == infos[Top(t).info].constructor.in[Len(Top(t).args) + 1] IN
     /\ \E key \in getGoroutineID(t) :
          LET f == Enter(t, pt, NoName, key) IN
          /\ stacks' = [stacks EXCEPT ![t] = <<f>> \o @]
          /\ infos' = OnceAfter(f)
     /\ resolving' = MarkedAfter(pt)
  /\ UNCHANGED <<engine, lvars, wires, dependencies, insts, hookLog, calls, lastRegister, lastDestroy>>

(***************************************************************************)
(* runHook: the hook is looked up as a method of the hooks value.          *)
(***************************************************************************)
HookFound(hooks, hookName) == hookName \in hooks.methods

runHook(hooks, hookName) ==
  IF ~HookFound(hooks, hookName) THEN [called |-> FALSE, err |-> NoErr]
  ELSE [called |-> TRUE, err |-> IF hookName \in hooks.fail THEN "hook" ELSE NoErr]

(***************************************************************************)
(* What the scope's wrapper does with the result (inst, err) of construct: *)
(* resolveSingleton stores the instance when err is nil and ends the Once; *)
(* resolveRequest stores the instance under its key; Prototype stores      *)
(* nothing.                                                                *)
(***************************************************************************)
StoreSingleton(i, inst, err) ==
  [i EXCEPT !.initOnce = "done",
            !.instance = IF err = NoErr THEN inst ELSE @]

StoreRequest(i, key, inst, err) ==
  IF err # NoErr THEN i
  ELSE [i EXCEPT !.instancePool =
          [k \in DOMAIN @ \cup {key} |-> IF k = key THEN inst ELSE @[k]]]

StorePrototype_Caches(i, inst, err) == [i EXCEPT !.instance = inst]

StorePrototype(i, inst, err) == i

InfosAfter(old, f, inst, err) ==
  LET i == old[f.info] IN
  [old EXCEPT ![f.info] =
     IF i.scope = Singleton THEN StoreSingleton(i, inst, err)
     ELSE IF i.scope = Request THEN StoreRequest(i, f.key, inst, err)
     ELSE StorePrototype(i, inst, err)]

(***************************************************************************)
(* What the scope's wrapper returns: resolveSingleton returns what         *)
(* info.instance holds when its own err is nil.                            *)
(***************************************************************************)
SingletonResult(i, err) == IF err # NoErr THEN 0 ELSE i.instance

Returned(new, f, inst, err) ==
  [f EXCEPT !.pc = "ret", !.err = err,
            !.inst = IF new[f.info].scope = Singleton
                       THEN SingletonResult(new[f.info], err)
                       ELSE IF err # NoErr THEN 0 ELSE inst]

(***************************************************************************)
(* A panic unwinds the goroutine's frames: every deferred                  *)
(* resolving.Delete runs, and every Once the goroutine is inside is done.  *)
(***************************************************************************)
Frames(t) == {stacks[t][k] : k \in 1..Len(stacks[t])}

Unwound(t) ==
  [id \in DOMAIN infos |->
     IF \E f \in Frames(t) : f.info = id /\ f.pc \in {"params", "call"}
                             /\ infos[id].scope = Singleton
       THEN [infos[id] EXCEPT !.initOnce = "done"]
       ELSE infos[id]]

(***************************************************************************)
(* construct after its parameters: constructor.Call (reflect panics on a   *)
(* zero Value argument, which a nil parameter is), the error result, then  *)
(* OnInit and OnStart through runHook, then the scope's store.             *)
(***************************************************************************)
ZeroValueArgument(f) == \E k \in 1..Len(f.args) : f.args[k] = 0

ConstructorFails(ctor) == Len(ctor.out) = 2 /\ ctor.fails

HookCalls(hooks, inst) ==
  LET none == [called |-> FALSE, err |-> NoErr]
      init == IF hooks.valid THEN runHook(hooks, "OnInit") ELSE none
      start == IF hooks.valid /\ init.err = NoErr THEN runHook(hooks, "OnStart") ELSE none
  IN [ log |-> (IF init.called THEN <<<<"OnInit", inst>>>> ELSE <<>>)
                \o (IF start.called THEN <<<<"OnStart", inst>>>> ELSE <<>>),
       err |-> IF init.err # NoErr THEN init.err ELSE start.err ]

Construct(t) ==
  /\ engine = "scope"
  /\ Busy(t)
  /\ Top(t).pc = "call"
  /\ LET f == Top(t)
         i == infos[f.info]
     IN IF ZeroValueArgument(f)
          THEN /\ infos' = Unwound(t)
               /\ resolving' = resolving \ {g.typ : g \in {h \in Frames(t) : h.marked}}
               /\ stacks' = [stacks EXCEPT ![t] = <<>>]
               /\ calls' = [calls EXCEPT ![CallOf(t)].state = "panic"]
               /\ UNCHANGED <<insts, hookLog>>
          ELSE LET ran == [infos EXCEPT ![f.info].runs = @ + 1]
                   g == [f EXCEPT !.ran = TRUE]
               IN IF ConstructorFails(i.constructor)
                    THEN /\ infos' = InfosAfter(ran, g, 0, "constructor")
                         /\ stacks' = [stacks EXCEPT ![t] =
                               <<Returned(infos', g, 0, "constructor")>> \o Tail(@)]
                         /\ UNCHANGED <<insts, hookLog, resolving, calls>>
                    ELSE LET inst == Len(insts) + 1
                             h == HookCalls(i.hooks, inst)
                         IN /\ insts' = Append(insts, f.info)
                            /\ hookLog' = hookLog \o h.log
                            /\ infos' = InfosAfter(ran, g, inst, h.err)
                            /\ stacks' = [stacks EXCEPT ![t] =
                                  <<Returned(infos', g, inst, h.err)>> \o Tail(@)]
                            /\ UNCHANGED <<resolving, calls>>
  /\ UNCHANGED <<engine, lvars, wires, dependencies, lastRegister, lastDestroy>>

(***************************************************************************)
(* History: per info, the instance each goroutine was last handed by a     *)
(* top-level Resolve since the last ClearRequestScoped.                    *)
(***************************************************************************)
Served(id, t) ==
  IF id # 0 /\ t \in DOMAIN infos[id].served THEN infos[id].served[t] ELSE 0

Serve(f, t) ==
  IF f.info = 0 \/ f.err # NoErr \/ f.inst = 0 THEN infos
  ELSE [infos EXCEPT ![f.info].served =
          [u \in DOMAIN @ \cup {t} |-> IF u = t THEN f.inst ELSE @[u]]]

(***************************************************************************)
(* The return of a Resolve frame (a frame waiting in Do returns once the   *)
(* Once is done, with what info.instance holds): the deferred              *)
(* resolving.Delete, then the result goes to the caller: to                *)
(* resolveConstructorParams of the frame below (an error ends that frame's *)
(* construct), or out of the top-level call.                               *)
(***************************************************************************)
DeleteOnReturn_OnSuccess(f) ==
  IF f.marked /\ f.err = NoErr THEN resolving \ {f.typ} ELSE resolving

DeleteOnReturn(f) == IF f.marked THEN resolving \ {f.typ} ELSE resolving

Woken(f) ==
  IF f.pc = "wait" THEN [f EXCEPT !.pc = "ret", !.inst = infos[f.info].instance] ELSE f

CanReturn(f) ==
  IF f.pc = "wait" THEN infos[f.info].initOnce = "done" ELSE f.pc = "ret"

Return(t) ==
  /\ engine = "scope"
  /\ Busy(t)
  /\ CanReturn(Top(t))
  /\ LET f == Woken(Top(t))
         rest == Tail(stacks[t])
     IN /\ resolving' = DeleteOnReturn(f)
        /\ IF rest = <<>>
             THEN /\ stacks' = [stacks EXCEPT ![t] = <<>>]
                  /\ calls' = [calls EXCEPT ![CallOf(t)] =
                        [@ EXCEPT !.state = IF f.err = NoErr THEN "ok" ELSE "err",
                                  !.info = f.info, !.inst = f.inst,
                                  !.err = f.err, !.ran = f.ran,
                                  !.prev = Served(f.info, t)]]
                  /\ infos' = Serve(f, t)
             ELSE LET p == Head(rest) IN
                  IF f.err # NoErr
                    THEN /\ infos' = InfosAfter(infos, p, 0, f.err)
                         /\ stacks' = [stacks EXCEPT ![t] =
                               <<Returned(infos', p, 0, f.err)>> \o Tail(rest)]
                         /\ UNCHANGED calls
                    ELSE /\ stacks' = [stacks EXCEPT ![t] =
                               <<InConstruct([p EXCEPT !.args = Append(@, f.inst)])>>
                               \o Tail(rest)]
                         /\ UNCHANGED <<infos, calls>>
  /\ UNCHANGED <<engine, lvars, wires, dependencies, insts, hookLog, lastRegister, lastDestroy>>

(***************************************************************************)
(* AutoWire (lines 284-291): an error for a target that is not a pointer   *)
(* to a struct; otherwise the loop over the fields begins.  History per    *)
(* call: set, the instance assigned to each field (0: none); resolved, the *)
(* fields Resolve was called for; failed, the field whose Resolve failed.  *)
(***************************************************************************)
Ended(w, idx) ==
  IF idx > Len(w.target.fields) THEN [w EXCEPT !.idx = idx, !.call = 0, !.state = "ok"]
  ELSE [w EXCEPT !.idx = idx, !.call = 0]

AutoWire(t, target) ==
  /\ engine = "scope"
  /\ ~Busy(t)
  /\ ~Wiring(t)
  /\ t > 1 => Used(t - 1)
  /\ Len(wires) < MaxWires
  /\ Work + Cardinality(ToResolve(target)) < MaxCalls
  /\ wires' = Append(wires,
        LET w == [ thread |-> t, target |-> target, idx |-> 1, call |-> 0,
                   set |-> [k \in DOMAIN target.fields |-> 0],
                   resolved |-> {}, failed |-> 0, state |-> "running" ]
        IN IF ~target.isStructPtr THEN [w EXCEPT !.state = "err"] ELSE Ended(w, 1))
  /\ UNCHANGED <<engine, lvars, dependencies, infos, resolving, stacks, insts, hookLog,
                 calls, lastRegister, lastDestroy>>

(***************************************************************************)
(* The loop body up to the Resolve call (lines 293-309), by PassedOver and *)
(* WireOptions.                                                            *)
(***************************************************************************)
WireField(t) ==
  /\ engine = "scope"
  /\ Wiring(t)
  /\ wires[WireOf(t)].call = 0
  /\ LET w == wires[WireOf(t)]
         field == w.target.fields[w.idx]
     IN IF PassedOver(field)
          THEN /\ wires' = [wires EXCEPT ![WireOf(t)] = Ended(w, w.idx + 1)]
               /\ UNCHANGED <<stacks, infos, resolving, calls>>
          ELSE /\ BeginResolve(t, field.typ, WireOptions(field.tag))
               /\ wires' = [wires EXCEPT ![WireOf(t)] =
                     [w EXCEPT !.call = Len(calls) + 1, !.resolved = @ \cup {w.idx}]]
  /\ UNCHANGED <<engine, lvars, dependencies, insts, hookLog, lastRegister, lastDestroy>>

(***************************************************************************)
(* The loop body after the Resolve call (lines 310-317): an error ends     *)
(* AutoWire; otherwise the field is set to the value returned, which       *)
(* panics when the value is nil (reflect.ValueOf(nil) is the zero Value);  *)
(* after the last field AutoWire returns nil.                              *)
(***************************************************************************)
WireSet(t) ==
  /\ engine = "scope"
  /\ Wiring(t)
  /\ wires[WireOf(t)].call # 0
  /\ calls[wires[WireOf(t)].call].state # "pending"
  /\ LET w == wires[WireOf(t)]
         c == calls[w.call]
     IN wires' = [wires EXCEPT ![WireOf(t)] =
          IF c.state = "panic" THEN [w EXCEPT !.state = "panic", !.failed = w.idx]
          ELSE IF c.state = "err" THEN [w EXCEPT !.state = "err", !.failed = w.idx]
          ELSE IF c.inst = 0 THEN [w EXCEPT !.state = "panic", !.failed = w.idx]
          ELSE Ended([w EXCEPT !.set[w.idx] = c.inst], w.idx + 1)]
  /\ UNCHANGED <<engine, lvars, dependencies, infos, resolving, stacks, insts, hookLog,
                 calls, lastRegister, lastDestroy>>

(***************************************************************************)
(* ClearRequestScoped: a new, empty pool for every registered Request      *)
(* info.  History: clearedAt, the number of instances built so far.        *)
(***************************************************************************)
Registered == {dependencies[k] : k \in DOMAIN dependencies} \ {0}

ClearRequestScoped_KeepsPools ==
  /\ engine = "scope"
  /\ \E id \in Registered : infos[id].scope = Request /\ DOMAIN infos[id].instancePool # {}
  /\ infos' = [id \in DOMAIN infos |->
        IF id \in Registered /\ infos[id].scope = Request
          THEN [infos[id] EXCEPT !.clearedAt = Len(insts)]
          ELSE infos[id]]
  /\ UNCHANGED <<engine, lvars, wires, dependencies, resolving, stacks, insts, hookLog, calls,
                 lastRegister, lastDestroy>>

ClearRequestScoped ==
  /\ engine = "scope"
  /\ \E id \in Registered : infos[id].scope = Request /\ DOMAIN infos[id].instancePool # {}
  /\ infos' = [id \in DOMAIN infos |->
        IF id \in Registered /\ infos[id].scope = Request
          THEN [infos[id] EXCEPT !.instancePool = [k \in {} |-> 0],
                                 !.served = [t \in {} |-> 0],
                                 !.clearedAt = Len(insts)]
          ELSE infos[id]]
  /\ UNCHANGED <<engine, lvars, wires, dependencies, resolving, stacks, insts, hookLog, calls,
                 lastRegister, lastDestroy>>

(***************************************************************************)
(* Destroy: destroyDependency for every registered info, in the order the  *)
(* map iteration yields, up to the first error.  destroyDependency runs    *)
(* OnDestroy through runHook on the Singleton's instance, or on every      *)
(* instance of a Request pool (in the order Range yields); for any other   *)
(* scope with valid hooks it panics.                                       *)
(***************************************************************************)
Perms(S) == {p \in [1..Cardinality(S) -> S] : \A a, b \in DOMAIN p : a # b => p[a] # p[b]}

RECURSIVE DestroyPool(_, _, _)
DestroyPool(i, keys, log) ==
  IF keys = <<>> THEN [log |-> log, result |-> NoErr]
  ELSE IF Head(keys) \notin DOMAIN i.instancePool THEN DestroyPool(i, Tail(keys), log)
  ELSE LET h == runHook(i.hooks, "OnDestroy")
           l == IF h.called THEN Append(log, <<"OnDestroy", i.instancePool[Head(keys)]>>) ELSE log
       IN IF h.err # NoErr THEN [log |-> l, result |-> h.err]
          ELSE DestroyPool(i, Tail(keys), l)

destroyDependency(i, keys) ==
  IF ~i.hooks.valid THEN [log |-> <<>>, result |-> NoErr]
  ELSE IF i.scope = Singleton
    THEN IF i.instance # 0
           THEN LET h == runHook(i.hooks, "OnDestroy") IN
                [ log |-> IF h.called THEN <<<<"OnDestroy", i.instance>>>> ELSE <<>>,
                  result |-> h.err ]
           ELSE [log |-> <<>>, result |-> NoErr]
  ELSE IF i.scope = Request THEN DestroyPool(i, keys, <<>>)
  ELSE [log |-> <<>>, result |-> "panic"]

RECURSIVE DestroyAll(_, _, _)
DestroyAll(order, keys, log) ==
  IF order = <<>> THEN [log |-> log, result |-> NoErr]
  ELSE LET r == destroyDependency(infos[Head(order)], keys) IN
       IF r.result # NoErr THEN [log |-> log \o r.log, result |-> r.result]
       ELSE DestroyAll(Tail(order), keys, log \o r.log)

(***************************************************************************)
(* The instances the registered infos cache: Singleton slots and Request   *)
(* pools.                                                                  *)
(***************************************************************************)
CachedBy(id) ==
  (IF infos[id].instance # 0 THEN {infos[id].instance} ELSE {})
  \cup {infos[id].instancePool[k] : k \in DOMAIN infos[id].instancePool}

Cached == UNION {CachedBy(id) : id \in Registered}

Destroy ==
  /\ engine = "scope"
  /\ lastDestroy.n < MaxDestroys
  /\ Work < MaxCalls
  /\ \E order \in Perms(Registered), keys \in Perms(Keys) :
       LET r == DestroyAll(order, keys, <<>>) IN
       /\ hookLog' = hookLog \o r.log
       /\ lastDestroy' = [n |-> lastDestroy.n + 1, result |-> r.result,
                           cached |-> Cached]
  /\ UNCHANGED <<engine, lvars, wires, dependencies, infos, resolving, stacks, insts, calls, lastRegister>>

(***************************************************************************)
(*                  The Lifetime-based container                           *)
(*                       (src/autowired.go)                                *)
(***************************************************************************)

(***************************************************************************)
(* Lifetime (lines 17-23); Singleton is 0 in both containers.              *)
(***************************************************************************)
Scoped == 1
Transient == 2
Lifetimes == {Singleton, Scoped, Transient}

(***************************************************************************)
(* dependencyNode: a type and a name; DefaultName is the empty name, used  *)
(* as it is.                                                               *)
(***************************************************************************)
DefaultName == NoName

LNodes == {<<"A", DefaultName>>, <<"A", <<"x">>>>, <<"B", DefaultName>>}

(***************************************************************************)
(* Hooks: Init is absent, returns nil, or returns an error; Start and Stop *)
(* are absent or return nil.                                               *)
(***************************************************************************)
Hooks(i, st, sp) == [init |-> i, start |-> st, stop |-> sp]

NoLHooks == Hooks("none", FALSE, FALSE)
AllHooks == Hooks("ok", TRUE, TRUE)
InitFails == Hooks("fail", TRUE, TRUE)

Registration(l, c, h) == [lifetime |-> l, constructor |-> c, hooks |-> h]

NoReg == [lifetime |-> -1]

LReg(n, l, c, h) == [node |-> n, reg |-> Registration(l, c, h)]

LRegInputs ==
  { LReg(<<"A", DefaultName>>, Singleton, NewAOk, NoLHooks),
    LReg(<<"A", DefaultName>>, Singleton, NewA, AllHooks),
    LReg(<<"A", DefaultName>>, Singleton, NewA, InitFails),
    LReg(<<"A", DefaultName>>, Scoped, NewA, AllHooks),
    LReg(<<"A", DefaultName>>, Transient, NewA, NoLHooks),
    LReg(<<"A", <<"x">>>>, Singleton, NewA, NoLHooks),
    LReg(<<"B", DefaultName>>, Singleton, NewBFromAA, NoLHooks) }

(***************************************************************************)
(* NewContainer.  A goroutine is idle or inside ResolveNamed or Start.     *)
(***************************************************************************)
EmptyResolved == [n \in LNodes |-> 0]

LIdle == [op |-> "idle"]

\* Container.mu when no goroutine holds it, and after the runtime's fatal error.
Free == [state |-> "free"]

Fatal == [state |-> "fatal"]

LInit ==
  /\ registrations = [n \in LNodes |-> NoReg]
  /\ mu = Free
  /\ singletons = [n \in LNodes |-> 0]
  /\ startedFlag = {}
  /\ graph = [n \in LNodes |-> <<>>]
  /\ scopes = <<>>
  /\ work = [t \in Threads |-> LIdle]
  /\ linsts = <<>>
  /\ lhookLog = <<>>
  /\ lcalls = <<>>
  /\ lhist = [regs |-> 0, starts |-> 0]

(***************************************************************************)
(* updateDependencyGraph: the nodes of the constructor's parameters, under *)
(* DefaultName, are appended to what the graph holds for the node.         *)
(***************************************************************************)
updateDependencyGraph(g, node, ctor) ==
  [g EXCEPT ![node] = @ \o [k \in 1..Len(ctor.in) |-> <<ctor.in[k], DefaultName>>]]

(***************************************************************************)
(* Container.mu.  RegisterNamedWithHooks holds the write lock from line    *)
(* 104 to its return; the read-locked and write-locked sections of the     *)
(* other operations are taken whole, so that between steps the lock is     *)
(* free or held by a RegisterNamedWithHooks that has written the           *)
(* Registration (mu then holds the node written and what it held before).  *)
(* A map read without the lock while the write is made is a data race: the *)
(* runtime may stop the program (fatal error: concurrent map read and map  *)
(* write), or the read yields the entry as it was or as it is.             *)
(***************************************************************************)
WriteLocked == mu.state = "write"

ReadUnlocked ==
  IF WriteLocked
    THEN {registrations, [registrations EXCEPT ![mu.node] = mu.old]}
    ELSE {registrations}

Throw ==
  /\ WriteLocked
  /\ mu' = Fatal
  /\ UNCHANGED <<svars, engine, graph, registrations, singletons, startedFlag, scopes,
                 work, linsts, lhookLog, lcalls, lhist>>

(***************************************************************************)
(* RegisterNamedWithHooks (lines 103-116): under the write lock, the       *)
(* Registration replaces the one stored for the node.  Then (lines         *)
(* 118-119) the dependency graph is updated and the lock is released.      *)
(***************************************************************************)
RegisterNamedWithHooks(r) ==
  /\ engine = "lifetime"
  /\ mu = Free
  /\ lhist.regs < MaxRegs
  /\ registrations' = [registrations EXCEPT ![r.node] = r.reg]
  /\ mu' = [state |-> "write", node |-> r.node, old |-> registrations[r.node]]
  /\ lhist' = [lhist EXCEPT !.regs = @ + 1]
  /\ UNCHANGED <<svars, engine, graph, singletons, startedFlag, scopes, work, linsts,
                 lhookLog, lcalls>>

RegisterReturn ==
  /\ engine = "lifetime"
  /\ WriteLocked
  /\ graph' = updateDependencyGraph(graph, mu.node, registrations[mu.node].constructor)
  /\ mu' = Free
  /\ UNCHANGED <<svars, engine, registrations, singletons, startedFlag, scopes, work,
                 linsts, lhookLog, lcalls, lhist>>

(***************************************************************************)
(* CreateScope: a new Scope, carried by the context it returns.  A context *)
(* is the number of the Scope it carries, 0 for none (getScope gives nil). *)
(***************************************************************************)
Contexts == 0..Len(scopes)

getScope(ctx) == ctx

\* CreateScope touches nothing of the Container: a Scope is made when the
\* Scope made before it has been put to use.
InUse(s) ==
  \/ \E c \in DOMAIN lcalls : lcalls[c].ctx = s
  \/ \E t \in Threads : work[t].op # "idle" /\ work[t].ctx = s
  \/ scopes[s].gen > 0

CreateScope ==
  /\ engine = "lifetime"
  /\ mu # Fatal
  /\ Len(scopes) < NumScopes
  /\ Len(scopes) > 0 => InUse(Len(scopes))
  /\ scopes' = Append(scopes,
        [instances |-> EmptyResolved, startedFlag |-> {}, gen |-> 0])
  /\ UNCHANGED <<svars, engine, mu, graph, registrations, singletons, startedFlag, work,
                 linsts, lhookLog, lcalls, lhist>>

(***************************************************************************)
(* resolveDependencies up to the construction (lines 182-226): the node is *)
(* already in this call's resolved map; or it is on the stack (a cycle);   *)
(* or nothing is registered for it; or its Singleton or Scoped instance is *)
(* cached; or it is to be constructed, from the Registration read.  The    *)
(* Registration and the cache are read in two read-locked sections, taken  *)
(* here as one step.                                                       *)
(***************************************************************************)
Have(inst) == [kind |-> "have", inst |-> inst, err |-> NoErr]

Failed(err) == [kind |-> "err", inst |-> 0, err |-> err]

Cache(reg, node, ctx) ==
  IF reg.lifetime = Singleton THEN singletons[node]
  ELSE IF reg.lifetime = Scoped /\ getScope(ctx) # 0
    THEN scopes[getScope(ctx)].instances[node]
  ELSE 0

resolveDependencies(node, resolved, stack, ctx) ==
  IF resolved[node] # 0 THEN Have(resolved[node])
  ELSE IF node \in stack THEN Failed("circular")
  ELSE IF registrations[node] = NoReg THEN Failed("unregistered")
  ELSE IF Cache(registrations[node], node, ctx) # 0
    THEN Have(Cache(registrations[node], node, ctx))
  ELSE [kind |-> "construct", inst |-> 0, err |-> NoErr, reg |-> registrations[node]]

LFrame(node, reg) == [node |-> node, reg |-> reg, args |-> <<>>]

LBusy(t) == work[t].op # "idle"

\* The ResolveNamed, Start and DestroyScope calls made so far.
RECURSIVE Destroyed(_)
Destroyed(k) == IF k = 0 THEN 0 ELSE scopes[k].gen + Destroyed(k - 1)

LWork == Len(lcalls) + lhist.starts + Destroyed(Len(scopes))

\* Goroutines are interchangeable: a call is made by the first idle one.
FirstIdle(t) == ~LBusy(t) /\ \A u \in Threads : u < t => LBusy(u)

(***************************************************************************)
(* The end of a resolution made by the call w with the result (inst, err), *)
(* the scopes being sc and the hook log being log.  ResolveNamed returns   *)
(* the result.  Start (lines 338-357) returns the error, or invokes the    *)
(* Start hook on the instance, flags the node in the scope when the        *)
(* registration is Scoped, and goes on with the next registration.         *)
(***************************************************************************)
NextOf(w) ==
  IF Tail(w.todo) = <<>> THEN LIdle
  ELSE [w EXCEPT !.todo = Tail(@), !.frames = <<>>, !.resolved = EmptyResolved]

Complete(w, inst, err, sc, log) ==
  IF w.op = "resolve"
    THEN [ work |-> LIdle,
           lcalls |-> [lcalls EXCEPT ![w.call] =
                         [@ EXCEPT !.state = IF err = NoErr THEN "ok" ELSE "err",
                                   !.inst = inst, !.err = err]],
           scopes |-> sc,
           log |-> log ]
  ELSE IF err # NoErr
    THEN [work |-> LIdle, lcalls |-> lcalls, scopes |-> sc, log |-> log]
  ELSE [ work |-> NextOf(w),
         lcalls |-> lcalls,
         scopes |-> IF w.lifetime = Scoped /\ getScope(w.ctx) # 0
                      THEN [sc EXCEPT ![getScope(w.ctx)].startedFlag = @ \cup {Head(w.todo)}]
                      ELSE sc,
         log |-> Append(log, <<"Start", inst, "start">>) ]

(***************************************************************************)
(* ResolveNamed (lines 169-179): resolveDependencies of the node with an   *)
(* empty resolved map and an empty stack.                                  *)
(***************************************************************************)
LCall(ctx, node, r) ==
  [ ctx |-> ctx, node |-> node,
    state |-> IF r.kind = "construct" THEN "pending"
              ELSE IF r.err = NoErr THEN "ok" ELSE "err",
    inst |-> r.inst, err |-> r.err ]

ResolveNamed(t, ctx, node) ==
  /\ engine = "lifetime"
  /\ mu = Free
  /\ ctx \in Contexts
  /\ FirstIdle(t)
  /\ Len(lcalls) < MaxCalls
  /\ LWork < MaxWork
  /\ LET r == resolveDependencies(node, EmptyResolved, {}, ctx) IN
     /\ lcalls' = Append(lcalls, LCall(ctx, node, r))
     /\ work' = IF r.kind = "construct"
                  THEN [work EXCEPT ![t] =
                         [ op |-> "resolve", ctx |-> ctx, call |-> Len(lcalls) + 1,
                           resolved |-> EmptyResolved, frames |-> <<LFrame(node, r.reg)>>,
                           todo |-> <<>>, lifetime |-> r.reg.lifetime ]]
                  ELSE work
  /\ UNCHANGED <<svars, engine, mu, graph, registrations, singletons, startedFlag, scopes,
                 linsts, lhookLog, lhist>>

(***************************************************************************)
(* The constructor's next parameter (lines 241-252): resolveDependencies   *)
(* of the parameter's type under DefaultName, with this node pushed on the *)
(* stack.  An error ends the whole call.                                   *)
(***************************************************************************)
LTop(t) == Head(work[t].frames)

InFrames(t) == LBusy(t) /\ work[t].frames # <<>>

StackOf(t) == {work[t].frames[k].node : k \in 1..Len(work[t].frames)}

ResolveParam(t) ==
  /\ engine = "lifetime"
  /\ mu = Free
  /\ InFrames(t)
  /\ Len(LTop(t).args) < Len(LTop(t).reg.constructor.in)
  /\ LET w == work[t]
         dep == <<LTop(t).reg.constructor.in[Len(LTop(t).args) + 1], DefaultName>>
         r == resolveDependencies(dep, w.resolved, StackOf(t), w.ctx)
     IN IF r.kind = "construct"
          THEN /\ work' = [work EXCEPT ![t].frames = <<LFrame(dep, r.reg)>> \o @]
               /\ UNCHANGED <<lcalls, scopes, lhookLog>>
        ELSE IF r.kind = "have"
          THEN /\ work' = [work EXCEPT
                     ![t].frames = <<[LTop(t) EXCEPT !.args = Append(@, r.inst)]>> \o Tail(@),
                     ![t].resolved = [@ EXCEPT ![dep] = r.inst]]
               /\ UNCHANGED <<lcalls, scopes, lhookLog>>
        ELSE LET c == Complete(w, 0, r.err, scopes, lhookLog) IN
             /\ work' = [work EXCEPT ![t] = c.work]
             /\ lcalls' = c.lcalls
             /\ scopes' = c.scopes
             /\ lhookLog' = c.log
  /\ UNCHANGED <<svars, engine, mu, graph, registrations, singletons, startedFlag, linsts, lhist>>

(***************************************************************************)
(* The construction (lines 254-300): the constructor call and its error    *)
(* result; the Init hook, whose error discards the instance; the store in  *)
(* Container.singletons or in the context's Scope; the resolved map.       *)
(***************************************************************************)
HooksOnConstruct_AndStart(hooks) ==
  (IF hooks.init # "none" THEN <<"Init">> ELSE <<>>)
    \o (IF hooks.start THEN <<"Start">> ELSE <<>>)

HooksOnConstruct(hooks) == IF hooks.init # "none" THEN <<"Init">> ELSE <<>>

InitError(hooks) == IF hooks.init = "fail" THEN "init" ELSE NoErr

\* Lines 247-249: the error of a parameter's resolution ends the caller's own.
ParameterFailed_Ignored(err) == FALSE

ParameterFailed(err) == err # NoErr

Stored_Always(err) == TRUE

Stored(err) == err = NoErr

HookEntries(names, inst, op) == [k \in 1..Len(names) |-> <<names[k], inst, op>>]

ConstructInstance(t) ==
  /\ engine = "lifetime"
  /\ mu # Fatal
  /\ InFrames(t)
  /\ LTop(t).reg.lifetime = Singleton => mu = Free
  /\ Len(LTop(t).args) = Len(LTop(t).reg.constructor.in)
  /\ LET w == work[t]
         f == LTop(t)
         reg == f.reg
         inst == Len(linsts) + 1
         err == InitError(reg.hooks)
         log == lhookLog \o HookEntries(HooksOnConstruct(reg.hooks), inst, w.op)
         sc == IF Stored(err) /\ reg.lifetime = Scoped /\ getScope(w.ctx) # 0
                 THEN [scopes EXCEPT ![getScope(w.ctx)].instances[f.node] = inst]
                 ELSE scopes
     IN IF ConstructorFails(reg.constructor)
          THEN LET c == Complete(w, 0, "constructor", scopes, lhookLog) IN
               /\ work' = [work EXCEPT ![t] = c.work]
               /\ lcalls' = c.lcalls
               /\ scopes' = c.scopes
               /\ lhookLog' = c.log
               /\ UNCHANGED <<linsts, singletons>>
          ELSE /\ linsts' = Append(linsts,
                     [ node |-> f.node, reg |-> reg, init |-> err, ctx |-> w.ctx,
                       call |-> w.call, args |-> f.args,
                       current |-> registrations[f.node] = reg,
                       gen |-> IF getScope(w.ctx) # 0
                                 THEN scopes[getScope(w.ctx)].gen ELSE 0 ])
               /\ singletons' = IF Stored(err) /\ reg.lifetime = Singleton
                                  THEN [singletons EXCEPT ![f.node] = inst]
                                  ELSE singletons
               /\ IF ~ParameterFailed(err) /\ Tail(w.frames) # <<>>
                    THEN /\ work' = [work EXCEPT
                               ![t].frames =
                                  <<[Head(Tail(w.frames)) EXCEPT !.args = Append(@, inst)]>>
                                  \o Tail(Tail(w.frames)),
                               ![t].resolved = [@ EXCEPT ![f.node] = inst]]
                         /\ scopes' = sc
                         /\ lhookLog' = log
                         /\ UNCHANGED lcalls
                    ELSE LET c == Complete(w, IF err = NoErr THEN inst ELSE 0, err, sc, log) IN
                         /\ work' = [work EXCEPT ![t] = c.work]
                         /\ lcalls' = c.lcalls
                         /\ scopes' = c.scopes
                         /\ lhookLog' = c.log
  /\ UNCHANGED <<svars, engine, mu, graph, registrations, startedFlag, lhist>>

(***************************************************************************)
(* Start (lines 321-362): the registrations that have a Start hook, in the *)
(* order the map iteration yields.  For a Singleton the instance is what   *)
(* Container.singletons holds (nil when nothing is cached), the hook is    *)
(* invoked on it and the node is flagged; for a Scoped or Transient        *)
(* registration the instance is what ResolveNamed returns.                 *)
(***************************************************************************)
HasStartIn(regs, n) == regs[n] # NoReg /\ regs[n].hooks.start

HasStart(n) == HasStartIn(registrations, n)

Start(t, ctx) ==
  /\ engine = "lifetime"
  /\ mu # Fatal
  /\ ctx \in Contexts
  /\ FirstIdle(t)
  /\ lhist.starts < MaxStarts
  /\ LWork < MaxWork
  /\ \/ \E regs \in ReadUnlocked :
          /\ {n \in LNodes : HasStartIn(regs, n)} # {}
          /\ \E order \in Perms({n \in LNodes : HasStartIn(regs, n)}) :
               work' = [work EXCEPT ![t] =
                          [ op |-> "start", ctx |-> ctx, call |-> 0,
                            resolved |-> EmptyResolved, frames |-> <<>>,
                            todo |-> order, lifetime |-> Singleton ]]
          /\ lhist' = [lhist EXCEPT !.starts = @ + 1]
          /\ UNCHANGED <<svars, engine, mu, graph, registrations, singletons,
                         startedFlag, scopes, linsts, lhookLog, lcalls>>
     \/ Throw

StartNext(t) ==
  /\ engine = "lifetime"
  /\ LBusy(t)
  /\ work[t].op = "start"
  /\ work[t].frames = <<>>
  /\ mu # Fatal
  /\ \/ \E regs \in ReadUnlocked :
          LET w == work[t]
              node == Head(w.todo)
              reg == regs[node]
          IN /\ HasStartIn(regs, node) => mu = Free
             /\ IF ~HasStartIn(regs, node)
                  THEN /\ work' = [work EXCEPT ![t] = NextOf(w)]
                       /\ UNCHANGED <<startedFlag, scopes, lhookLog>>
                ELSE IF reg.lifetime = Singleton
                  THEN /\ lhookLog' = Append(lhookLog,
                                             <<"Start", singletons[node], "start">>)
                       /\ startedFlag' = startedFlag \cup {node}
                       /\ work' = [work EXCEPT ![t] = NextOf(w)]
                       /\ UNCHANGED scopes
                ELSE LET r == resolveDependencies(node, EmptyResolved, {}, w.ctx)
                         v == [w EXCEPT !.lifetime = reg.lifetime]
                     IN IF r.kind = "construct"
                          THEN /\ work' = [work EXCEPT ![t] =
                                             [v EXCEPT !.frames = <<LFrame(node, r.reg)>>]]
                               /\ UNCHANGED <<startedFlag, scopes, lhookLog>>
                          ELSE LET c == Complete(v, r.inst, r.err, scopes, lhookLog) IN
                               /\ work' = [work EXCEPT ![t] = c.work]
                               /\ scopes' = c.scopes
                               /\ lhookLog' = c.log
                               /\ UNCHANGED startedFlag
             /\ UNCHANGED <<svars, engine, mu, graph, registrations, singletons, linsts,
                            lcalls, lhist>>
     \/ Throw

(***************************************************************************)
(* Stop (lines 365-380): the Stop hook on every cached Singleton that has  *)
(* one and is flagged as started; the flag is deleted.                     *)
(***************************************************************************)
HasStopIn(regs, n) == regs[n] # NoReg /\ regs[n].hooks.stop

HasStop(n) == HasStopIn(registrations, n)

StopLog(order, inst) == [k \in 1..Len(order) |-> <<"Stop", inst[order[k]], "stop">>]

Stop ==
  /\ engine = "lifetime"
  /\ mu = Free
  /\ LET S == {n \in LNodes : singletons[n] # 0 /\ HasStop(n) /\ n \in startedFlag} IN
     /\ S # {}
     /\ \E order \in Perms(S) : lhookLog' = lhookLog \o StopLog(order, singletons)
     /\ startedFlag' = startedFlag \ S
  /\ UNCHANGED <<svars, engine, mu, graph, registrations, singletons, scopes, work, linsts,
                 lcalls, lhist>>

(***************************************************************************)
(* DestroyScope (lines 383-403): the Stop hook on every instance of the    *)
(* Scope that has one and is flagged as started; then the Scope's two maps *)
(* are replaced by empty ones.  History: gen, the number of DestroyScope   *)
(* calls that emptied the Scope.                                           *)
(***************************************************************************)
DestroyScope(ctx) ==
  /\ engine = "lifetime"
  /\ ctx \in Contexts
  /\ getScope(ctx) # 0
  /\ mu # Fatal
  /\ LWork < MaxWork
  /\ LET sc == scopes[getScope(ctx)] IN
     /\ sc.instances # EmptyResolved \/ sc.startedFlag # {}
     /\ \/ \E regs \in ReadUnlocked :
             LET S == {n \in LNodes : /\ sc.instances[n] # 0
                                      /\ HasStopIn(regs, n)
                                      /\ n \in sc.startedFlag}
             IN /\ \E order \in Perms(S) :
                     lhookLog' = lhookLog \o StopLog(order, sc.instances)
                /\ scopes' = [scopes EXCEPT ![getScope(ctx)] =
                      [instances |-> EmptyResolved, startedFlag |-> {},
                       gen |-> sc.gen + 1]]
                /\ UNCHANGED <<svars, engine, mu, graph, registrations, singletons,
                               startedFlag, work, linsts, lcalls, lhist>>
        \/ sc.instances # EmptyResolved /\ Throw

(***************************************************************************)
(* NewContainer, of the one container or of the other: the two files       *)
(* declare the same package and the same type Container, so that a program *)
(* is built with one of them.                                              *)
(***************************************************************************)
Init ==
  /\ dependencies = [k \in Types \X StoreNames |-> 0]
  /\ infos = <<>>
  /\ resolving = {}
  /\ stacks = [t \in Threads |-> <<>>]
  /\ insts = <<>>
  /\ hookLog = <<>>
  /\ calls = <<>>
  /\ lastRegister = [n |-> 0, input |-> Reg(NewA, NoName, Singleton, NoHooks), err |-> NoErr]
  /\ lastDestroy = [n |-> 0, result |-> NoErr, cached |-> {}]
  /\ wires = <<>>
  /\ engine \in {"scope", "lifetime"}
  /\ LInit

ScopeNext ==
  \/ \E r \in RegInputs : Register(r)
  \/ \E t \in Threads, q \in ResolveInputs : StartResolve(t, q[1], q[2])
  \/ \E t \in Threads : Param(t)
  \/ \E t \in Threads : Construct(t)
  \/ \E t \in Threads : Return(t)
  \/ ClearRequestScoped
  \/ Destroy
  \/ \E t \in Threads, target \in Targets : AutoWire(t, target)
  \/ \E t \in Threads : WireField(t)
  \/ \E t \in Threads : WireSet(t)

LifetimeNext ==
  \/ \E r \in LRegInputs : RegisterNamedWithHooks(r)
  \/ RegisterReturn
  \/ CreateScope
  \/ \E t \in Threads, ctx \in 0..NumScopes, n \in LNodes : ResolveNamed(t, ctx, n)
  \/ \E t \in Threads : ResolveParam(t)
  \/ \E t \in Threads : ConstructInstance(t)
  \/ \E t \in Threads, ctx \in 0..NumScopes : Start(t, ctx)
  \/ \E t \in Threads : StartNext(t)
  \/ Stop
  \/ \E ctx \in 0..NumScopes : DestroyScope(ctx)

Next == ScopeNext \/ LifetimeNext

Spec == Init /\ [][Next]_vars

(***************************************************************************)
(* The Go scheduler runs every goroutine that can run: a goroutine inside  *)
(* Resolve that can take its next step eventually takes it.  Resolve is    *)
(* the Scope-based container's.                                            *)
(***************************************************************************)
Fairness ==
  \A t \in Threads :
    WF_vars(Param(t)) /\ WF_vars(Construct(t)) /\ WF_vars(Return(t))

ScopeInit == Init /\ engine = "scope"

FairSpec == ScopeInit /\ [][ScopeNext]_vars /\ Fairness

(***************************************************************************)
(* Vocabulary of the properties.  A call is a top-level Resolve call: its  *)
(* record holds the type and name it was given, the info it looked up,     *)
(* what it returned (state "ok": a nil error, with the instance returned,  *)
(* 0 for none; state "err": the error; state "panic"), whether its own     *)
(* frame invoked the constructor (ran), the calls in progress when it      *)
(* started (open), the number of Register calls made before it (regs) and  *)
(* the clearedAt of the info it looked up, as it was at the start.         *)
(***************************************************************************)
Calls == 1..Len(calls)

Finished(c) == calls[c].state # "pending"

Ok(c) == calls[c].state = "ok"

Got(c) == Ok(c) /\ calls[c].inst # 0

ScopeIs(c, scope) == calls[c].info # 0 /\ infos[calls[c].info].scope = scope

\* No other top-level Resolve was in progress at any time during call c.
Alone(c) == calls[c].open = {} /\ \A d \in Calls : c \notin calls[d].open

\* No Register call was made since call c started: the store is the one c saw.
StoreAsSeenBy(c) == calls[c].regs = lastRegister.n

Logged(hook, inst) == \E k \in DOMAIN hookLog : hookLog[k] = <<hook, inst>>

(***************************************************************************)
(* C1.  Singleton: any two Resolve calls that returned an instance of the  *)
(* same registration (no re-registration of the identity between them:     *)
(* both looked up the same dependencyInfo) returned the same instance, and *)
(* that registration's constructor has run exactly once.                   *)
(***************************************************************************)
C1_SingletonOneInstance ==
  \A c, d \in Calls :
    (Got(c) /\ Got(d) /\ calls[c].info = calls[d].info /\ ScopeIs(c, Singleton))
      => /\ calls[c].inst = calls[d].inst
         /\ infos[calls[c].info].runs = 1

C1_Witness ==
  \E c, d \in Calls :
    /\ c # d /\ Got(c) /\ Got(d)
    /\ calls[c].info = calls[d].info /\ ScopeIs(c, Singleton)

(***************************************************************************)
(* C2.  Prototype: every Resolve call of a Prototype registration that     *)
(* returns has invoked the constructor in that very call and returned the  *)
(* instance it built, which no other Resolve call has returned; and no     *)
(* instance built by a Prototype registration is held in a Singleton slot  *)
(* or in a Request pool.                                                   *)
(***************************************************************************)
C2_PrototypeAlwaysNew ==
  /\ \A c \in Calls :
       (Ok(c) /\ ScopeIs(c, Prototype))
         => /\ calls[c].ran
            /\ calls[c].inst # 0
            /\ insts[calls[c].inst] = calls[c].info
            /\ \A d \in Calls \ {c} : calls[d].inst # calls[c].inst
  /\ \A k \in DOMAIN insts :
       infos[insts[k]].scope = Prototype
         => \A id \in DOMAIN infos : k \notin CachedBy(id)

C2_Witness ==
  \E c, d \in Calls :
    /\ c # d /\ Ok(c) /\ Ok(d)
    /\ calls[c].info = calls[d].info /\ ScopeIs(c, Prototype)

(***************************************************************************)
(* C3.  Singleton, concurrent first resolution: when a caller starts       *)
(* Resolve of a registered, never-yet-built Singleton identity and another *)
(* starts Resolve of the same identity while the first is in progress,     *)
(* both observe the same outcome (the same instance, or the same error),   *)
(* and the constructor has run at most once.                               *)
(***************************************************************************)
C3_ConcurrentFirstResolve ==
  \A c, d \in Calls :
    ( /\ c \in calls[d].open /\ Finished(c) /\ Finished(d)
      /\ calls[c].fresh
      /\ calls[c].target = calls[d].target
      /\ infos[calls[c].target].scope = Singleton )
      => /\ calls[c].state = calls[d].state
         /\ calls[c].inst = calls[d].inst
         /\ calls[c].err = calls[d].err
         /\ infos[calls[c].target].runs <= 1

(***************************************************************************)
(* C4.  Cycles: when the constructor of the identity a Resolve call asks   *)
(* for depends, directly or through other registered constructors, on the  *)
(* identity's own type, the call returns a circular-dependency error and   *)
(* has not invoked the constructor.  Stated for the plainest case: every   *)
(* registration was made before the first Resolve, and the caller is on    *)
(* its own.                                                                *)
(***************************************************************************)
ParamTypes(id) ==
  IF id = 0 THEN {}
  ELSE {infos[id].constructor.in[k] : k \in 1..Len(infos[id].constructor.in)}

RECURSIVE ReachableTypes(_, _)
ReachableTypes(S, n) ==
  IF n = 0 THEN S
  ELSE ReachableTypes(
         S \cup UNION {ParamTypes(getDependencyInfo(x, NoName)) : x \in S}, n - 1)

InCycle(id) ==
  /\ id # 0
  /\ infos[id].typ \in ReachableTypes(ParamTypes(id), Cardinality(Types))

C4_CycleIsAnError ==
  \A c \in Calls :
    ( /\ Finished(c) /\ Alone(c)
      /\ \A e \in Calls : StoreAsSeenBy(e)
      /\ InCycle(getDependencyInfo(calls[c].typ, calls[c].name)) )
      => /\ calls[c].state = "err"
         /\ calls[c].err = "circular"
         /\ ~calls[c].ran

(***************************************************************************)
(* C5.  Request: a Resolve call of a Request registration made by a        *)
(* goroutine that was handed an instance of it before, with no             *)
(* ClearRequestScoped since, returns that same instance without running    *)
(* the constructor; and calls made by different goroutines never return    *)
(* the same instance.                                                      *)
(***************************************************************************)
C5_RequestPerGoroutine ==
  \A c \in Calls :
    (Ok(c) /\ ScopeIs(c, Request))
      => /\ calls[c].prev # 0 => (calls[c].inst = calls[c].prev /\ ~calls[c].ran)
         /\ \A d \in Calls :
              (Ok(d) /\ calls[d].info = calls[c].info
                     /\ calls[d].thread # calls[c].thread)
                => calls[d].inst # calls[c].inst

(***************************************************************************)
(* C6.  Every Resolve call that has ended returned an error or an          *)
(* instance: never a nil error with no instance, and it did not panic.     *)
(***************************************************************************)
C6_ErrorOrInstance ==
  \A c \in Calls : Finished(c) => (calls[c].state = "err" \/ Got(c))

(***************************************************************************)
(* C7.  Resolve of an identity whose constructor returns a failure yields  *)
(* an error and caches no instance; and once the identity has been         *)
(* re-registered with a constructor that succeeds, a Resolve of it (by a   *)
(* caller on its own) returns an instance built by the new constructor.    *)
(***************************************************************************)
Replaces(id) ==
  {j \in 1..(id - 1) : infos[j].typ = infos[id].typ /\ infos[j].name = infos[id].name}

Succeeds(ctor) == ~ConstructorFails(ctor) /\ ctor.in = <<>>

C7_FailureThenFixedRegistration ==
  \A c \in Calls :
    LET id == getDependencyInfo(calls[c].typ, calls[c].name) IN
    (Finished(c) /\ StoreAsSeenBy(c) /\ id # 0)
      => /\ ConstructorFails(infos[id].constructor)
              => (calls[c].state = "err" /\ CachedBy(id) = {})
         /\ ( /\ Succeeds(infos[id].constructor) /\ Alone(c)
              /\ \E j \in Replaces(id) : ConstructorFails(infos[j].constructor) )
              => (Got(c) /\ insts[calls[c].inst] = id)

(***************************************************************************)
(* C8.  Names: an instance a Resolve call returns was built by a           *)
(* constructor registered for the call's type under the call's name (the   *)
(* type's default name when the call gives none), never under another      *)
(* name; and a Resolve call with no name, by a caller on its own, while    *)
(* nothing is registered under the type's default name, returns an         *)
(* unregistered-dependency error.                                          *)
(***************************************************************************)
C8_ResolveByName ==
  \A c \in Calls :
    /\ Got(c) =>
         /\ infos[insts[calls[c].inst]].typ = calls[c].typ
         /\ infos[insts[calls[c].inst]].name = LookupName(calls[c].typ, calls[c].name)
    /\ ( /\ Finished(c) /\ Alone(c) /\ StoreAsSeenBy(c)
         /\ calls[c].name = NoName
         /\ dependencies[<<calls[c].typ, getDefaultName(calls[c].typ)>>] = 0 )
         => (calls[c].state = "err" /\ calls[c].err = "unregistered")

\* Type A is registered under the names x and y and not under its default name;
\* one call has resolved it by the name x, another has asked for it with no name.
C8_Witness ==
  /\ dependencies[<<"A", <<"x">>>>] # 0
  /\ dependencies[<<"A", <<"y">>>>] # 0
  /\ dependencies[<<"A", getDefaultName("A")>>] = 0
  /\ \E c, d \in Calls :
       /\ Got(c) /\ calls[c].typ = "A" /\ calls[c].name = <<"x">>
       /\ Finished(d) /\ Alone(d) /\ calls[d].typ = "A" /\ calls[d].name = NoName

(***************************************************************************)
(* C9.  Register with a constructor that is not a function, or whose       *)
(* results are not exactly one value or a (value, error) pair, returns an  *)
(* error and leaves the registration store as it was.                      *)
(***************************************************************************)
ValidShape(ctor) ==
  /\ ctor.isFunc
  /\ \/ Len(ctor.out) = 1
     \/ Len(ctor.out) = 2 /\ ctor.out[2] = "error"

C9_InvalidShapeRejected ==
  [][ (lastRegister'.n # lastRegister.n /\ ~ValidShape(lastRegister'.input.ctor))
        => /\ lastRegister'.err # NoErr
           /\ dependencies' = dependencies
           /\ infos' = infos ]_vars

(***************************************************************************)
(* C10.  Hooks: a Resolve call that constructed and returned an instance   *)
(* of a registration made with a LifecycleHooks bundle has invoked OnInit  *)
(* and then OnStart on the instance; and a Destroy that found the          *)
(* instance cached has invoked OnDestroy on it.                            *)
(***************************************************************************)
C10_HooksInvoked ==
  \A c \in Calls :
    (Got(c) /\ calls[c].ran /\ infos[calls[c].info].given.lh)
      => /\ \E a, b \in DOMAIN hookLog :
              /\ a < b
              /\ hookLog[a] = <<"OnInit", calls[c].inst>>
              /\ hookLog[b] = <<"OnStart", calls[c].inst>>
         /\ calls[c].inst \in lastDestroy.cached => Logged("OnDestroy", calls[c].inst)

(***************************************************************************)
(* C11.  Destroy: OnDestroy is invoked at most once for an instance, only  *)
(* for an instance on which OnInit was invoked, and an instance that       *)
(* Destroy found cached under a registration made with a LifecycleHooks    *)
(* bundle (so that Destroy is to run its OnDestroy) is cached no more.     *)
(***************************************************************************)
TimesLogged(hook, inst) ==
  Cardinality({k \in DOMAIN hookLog : hookLog[k] = <<hook, inst>>})

C11_DestroyOnceThenEvict ==
  /\ \A k \in DOMAIN insts :
       /\ TimesLogged("OnDestroy", k) <= 1
       /\ Logged("OnDestroy", k) => Logged("OnInit", k)
  /\ \A k \in lastDestroy.cached :
       infos[insts[k]].given.lh => k \notin Cached

(***************************************************************************)
(* C12.  While the registered constructors form no cycle (and no Register  *)
(* was made since the first Resolve began), no Resolve call of a           *)
(* registered identity returns a circular-dependency error, whatever other *)
(* Resolve calls run concurrently.                                         *)
(***************************************************************************)
Acyclic == \A id \in Registered : ~InCycle(id)

C12_NoFalseCircular ==
  (Acyclic /\ \A e \in Calls : StoreAsSeenBy(e))
    => \A c \in Calls :
         calls[c].target # 0 => ~(Finished(c) /\ calls[c].err = "circular")

(***************************************************************************)
(* C13.  Every Resolve call ends: a call in progress is eventually no      *)
(* longer in progress, whatever the interleaving with other callers.  No   *)
(* frame waits on a Once its own goroutine is running: a Resolve of a type *)
(* that an outer frame of the same goroutine is resolving has returned the *)
(* circular-dependency error at once.                                      *)
(***************************************************************************)
Reentered(t) ==
  /\ Len(stacks[t]) >= 2
  /\ \E j \in 2..Len(stacks[t]) : stacks[t][j].typ = Top(t).typ

C13_RecursionIsAnError ==
  \A t \in Threads :
    Reentered(t) => (Top(t).pc = "ret" /\ Top(t).err = "circular")

C13_EveryResolveReturns ==
  /\ []C13_RecursionIsAnError
  /\ \A c \in 1..MaxCalls :
       (c \in Calls /\ ~Finished(c)) ~> (c \in Calls /\ Finished(c))

\* A Singleton's construction, inside its Once, has resolved its own type again.
C13_Witness ==
  \E t \in Threads :
    /\ Reentered(t)
    /\ \E j \in 2..Len(stacks[t]) :
         /\ stacks[t][j].typ = Top(t).typ
         /\ stacks[t][j].info # 0
         /\ infos[stacks[t][j].info].scope = Singleton
         /\ infos[stacks[t][j].info].initOnce = "running"

(***************************************************************************)
(* C14.  A ClearRequestScoped step leaves the pool of every registered     *)
(* Request info empty, invokes no hook, and changes no registration and no *)
(* Singleton's instance or Once; and a Resolve call of a Request identity  *)
(* that began after the last ClearRequestScoped of its info returns an     *)
(* instance constructed after it.                                          *)
(***************************************************************************)
ClearStep == \E id \in DOMAIN infos : infos'[id].clearedAt # infos[id].clearedAt

ClearEffect ==
  /\ \A id \in Registered :
       infos[id].scope = Request => DOMAIN infos'[id].instancePool = {}
  /\ hookLog' = hookLog
  /\ dependencies' = dependencies
  /\ DOMAIN infos' = DOMAIN infos
  /\ \A id \in DOMAIN infos :
       /\ infos'[id].instance = infos[id].instance
       /\ infos'[id].initOnce = infos[id].initOnce
       /\ infos'[id].constructor = infos[id].constructor
       /\ infos'[id].scope = infos[id].scope
       /\ infos'[id].hooks = infos[id].hooks
       /\ infos'[id].name = infos[id].name
       /\ infos[id].scope # Request => infos'[id] = infos[id]

NewAfterClear ==
  \A c \in Calls :
    ( /\ Ok(c) /\ ScopeIs(c, Request)
      /\ calls[c].clearedAt >= 1
      /\ calls[c].clearedAt = infos[calls[c].info].clearedAt )
      => calls[c].inst > infos[calls[c].info].clearedAt

C14_ClearRequestScoped == [][ClearStep => ClearEffect]_vars /\ []NewAfterClear

\* After a ClearRequestScoped that found a Request instance pooled and a
\* Singleton cached, a Resolve of the Request identity has constructed anew.
C14_Witness ==
  /\ \E id \in Registered : infos[id].scope = Singleton /\ infos[id].instance # 0
  /\ \E c \in Calls :
       /\ Ok(c) /\ ScopeIs(c, Request) /\ calls[c].ran
       /\ calls[c].clearedAt >= 1
       /\ calls[c].clearedAt = infos[calls[c].info].clearedAt

(***************************************************************************)
(* C15.  Last write wins: a Resolve call that began after the latest       *)
(* Register returns an instance built by the latest registration made for  *)
(* its identity, never one built by or cached under an earlier one.        *)
(***************************************************************************)
RegistrationsOf(typ, name) ==
  {j \in DOMAIN infos : infos[j].typ = typ /\ infos[j].name = LookupName(typ, name)}

Latest(typ, name) ==
  IF RegistrationsOf(typ, name) = {} THEN 0
  ELSE CHOOSE j \in RegistrationsOf(typ, name) :
         \A k \in RegistrationsOf(typ, name) : k <= j

C15_LastWriteWins ==
  \A c \in Calls :
    (Got(c) /\ StoreAsSeenBy(c))
      => /\ calls[c].info = Latest(calls[c].typ, calls[c].name)
         /\ insts[calls[c].inst] = Latest(calls[c].typ, calls[c].name)

\* An identity was resolved, registered again, and resolved again.
C15_Witness ==
  \E c, d \in Calls :
    /\ Got(c) /\ Got(d) /\ StoreAsSeenBy(c)
    /\ calls[d].info \in Replaces(calls[c].info)


(***************************************************************************)
(* The Lifetime-based container: the ResolveNamed calls made, those that   *)
(* returned an instance, and the hook calls made.                          *)
(***************************************************************************)
LCalls == 1..Len(lcalls)

LGot(c) == lcalls[c].state = "ok"

LFailedCall(c) == lcalls[c].state = "err"

LLogged(hook, inst, op) == \E k \in DOMAIN lhookLog : lhookLog[k] = <<hook, inst, op>>

LTimesLogged(hook, inst) ==
  Cardinality({k \in DOMAIN lhookLog : lhookLog[k][1] = hook /\ lhookLog[k][2] = inst})

OnInitFailed(k) == Logged("OnInit", k) /\ "OnInit" \in infos[insts[k]].hooks.fail

LInitFailed(i) == linsts[i].init # NoErr

LCached ==
  {singletons[n] : n \in LNodes}
    \cup UNION {{scopes[k].instances[n] : n \in LNodes} : k \in DOMAIN scopes}

C17_InitFailureDiscards ==
  /\ \A k \in DOMAIN insts :
       OnInitFailed(k)
         => /\ k \notin Cached
            /\ \A c \in Calls : ~(Got(c) /\ calls[c].inst = k)
            /\ ~Logged("OnStart", k) /\ ~Logged("OnDestroy", k)
  /\ \A i \in DOMAIN linsts :
       LInitFailed(i)
         => /\ linsts[i].call # 0
              => LFailedCall(linsts[i].call) /\ lcalls[linsts[i].call].err = "init"
            /\ i \notin LCached
            /\ \A c \in LCalls : ~(LGot(c) /\ lcalls[c].inst = i)
            /\ LTimesLogged("Start", i) = 0 /\ LTimesLogged("Stop", i) = 0

\* The Init hook failed on an instance that a ResolveNamed call built, and
\* a later ResolveNamed call of the same node has returned.
C17_Witness ==
  \E i \in DOMAIN linsts, d \in LCalls :
    /\ LInitFailed(i)
    /\ LLogged("Init", i, "resolve")
    /\ linsts[i].call # 0 /\ linsts[i].call < d
    /\ lcalls[d].node = linsts[i].node
    /\ lcalls[d].state # "pending"


(***************************************************************************)
(* C18.  Singleton: for one node and one Singleton registration of it, at  *)
(* most one instance is constructed (with its Init hook, if any,           *)
(* succeeding), and all the ResolveNamed calls that return an instance of  *)
(* it return the same one.                                                 *)
(***************************************************************************)
Built(lifetime) ==
  {i \in DOMAIN linsts : linsts[i].reg.lifetime = lifetime /\ ~LInitFailed(i)}

SameRegistration(i, j) ==
  linsts[i].node = linsts[j].node /\ linsts[i].reg = linsts[j].reg

C18_OneSingletonInstance ==
  /\ \A i, j \in Built(Singleton) : SameRegistration(i, j) => i = j
  /\ \A c, d \in LCalls :
       ( /\ LGot(c) /\ LGot(d)
         /\ lcalls[c].node = lcalls[d].node
         /\ lcalls[c].inst \in Built(Singleton)
         /\ lcalls[d].inst \in Built(Singleton)
         /\ SameRegistration(lcalls[c].inst, lcalls[d].inst) )
         => lcalls[c].inst = lcalls[d].inst


(***************************************************************************)
(* C19.  Scoped: for one node, one Scoped registration of it and one Scope *)
(* between two DestroyScope calls, at most one instance is constructed,    *)
(* and the ResolveNamed calls carrying the Scope return the same one;      *)
(* calls carrying different Scopes return different instances.             *)
(***************************************************************************)
SameScope(i, j) ==
  /\ linsts[i].ctx # 0
  /\ linsts[i].ctx = linsts[j].ctx
  /\ linsts[i].gen = linsts[j].gen

C19_OneInstancePerScope ==
  /\ \A i, j \in Built(Scoped) :
       (SameRegistration(i, j) /\ SameScope(i, j)) => i = j
  /\ \A c, d \in LCalls :
       ( /\ LGot(c) /\ LGot(d)
         /\ lcalls[c].inst \in Built(Scoped)
         /\ lcalls[d].inst \in Built(Scoped) )
         => /\ ( /\ lcalls[c].ctx = lcalls[d].ctx
                 /\ SameRegistration(lcalls[c].inst, lcalls[d].inst)
                 /\ SameScope(lcalls[c].inst, lcalls[d].inst) )
                 => lcalls[c].inst = lcalls[d].inst
            /\ lcalls[c].ctx # lcalls[d].ctx => lcalls[c].inst # lcalls[d].inst


(***************************************************************************)
(* C20.  Over any sequence of Start passes the Start hook has been invoked *)
(* at most once on an instance.                                            *)
(***************************************************************************)
C20_StartAtMostOnce ==
  \A i \in DOMAIN linsts : LTimesLogged("Start", i) <= 1


(***************************************************************************)
(* C21.  Every Start hook invoked was invoked on an instance that a        *)
(* constructor returned and whose Init hook, if any, succeeded: never on   *)
(* an absent instance (nil, written 0).                                    *)
(***************************************************************************)
C21_StartOnlyOnInstances ==
  \A k \in DOMAIN lhookLog :
    lhookLog[k][1] = "Start"
      => /\ lhookLog[k][2] \in DOMAIN linsts
         /\ ~LInitFailed(lhookLog[k][2])


(***************************************************************************)
(* C22.  Destroy never faults: it has returned nil or an error value, also *)
(* when a Prototype registration carries a hooks bundle.                   *)
(***************************************************************************)
C22_DestroyNeverFaults ==
  lastDestroy.n > 0 => lastDestroy.result # "panic"


(***************************************************************************)
(* C23.  After an AutoWire call that returned nil, every settable field of *)
(* the target that carries an autowire tag, the empty tag included and the *)
(* skip sentinel apart, has been assigned an instance.                     *)
(***************************************************************************)
Tagged(field) == field.canSet /\ field.tag.present /\ field.tag.value # <<"-">>

C23_AutoWireSetsTaggedFields ==
  \A w \in DOMAIN wires :
    wires[w].state = "ok"
      => \A k \in DOMAIN wires[w].target.fields :
           Tagged(wires[w].target.fields[k]) => wires[w].set[k] # 0

(***************************************************************************)
(* C24.  A field tagged with the skip sentinel autowire:"-" is left        *)
(* untouched: AutoWire calls no Resolve for it, assigns nothing to it and  *)
(* does not fail at it.                                                    *)
(***************************************************************************)
Skip(field) == field.tag.present /\ field.tag.value = <<"-">>

C24_SkipSentinelUntouched ==
  \A w \in DOMAIN wires :
    \A k \in DOMAIN wires[w].target.fields :
      Skip(wires[w].target.fields[k])
        => /\ k \notin wires[w].resolved
           /\ wires[w].set[k] = 0
           /\ wires[w].failed # k


(***************************************************************************)
(* C25.  Identities are compared by (type, name): a Resolve of (A, "x"),   *)
(* registered with a constructor that takes an A, while (A, default) is    *)
(* registered with a constructor that takes nothing and does not fail,     *)
(* returns an instance (the call being made alone, with no Register since  *)
(* it started).                                                            *)
(***************************************************************************)
DefaultOf(typ) == dependencies[<<typ, getDefaultName(typ)>>]

C25_NamedTakesDefault ==
  \A c \in Calls :
    ( /\ Finished(c) /\ Alone(c) /\ StoreAsSeenBy(c)
      /\ calls[c].typ = "A" /\ calls[c].name = <<"x">>
      /\ calls[c].target # 0
      /\ infos[calls[c].target].constructor = NewAFromA
      /\ DefaultOf("A") # 0
      /\ infos[DefaultOf("A")].constructor = NewA )
      => Got(c)


(***************************************************************************)
(* C26.  Within one top-level Resolve call the constructor of an identity  *)
(* runs at most once, whatever its scope and however many parameters of    *)
(* the constructors reached have its type: while a single top-level        *)
(* Resolve call has been made, no registration's constructor has run       *)
(* twice.                                                                  *)
(***************************************************************************)
C26_OneRunPerResolve ==
  Len(calls) = 1 => \A id \in DOMAIN infos : infos[id].runs <= 1


(***************************************************************************)
(* C27.  Transient: every resolution of a Transient node produces an       *)
(* instance of its own.  An instance built under a Transient registration  *)
(* has been handed out at most once, as one argument of one constructor    *)
(* call or as the result of one ResolveNamed call.                         *)
(***************************************************************************)
UsesAsArgument(j) ==
  {<<i, p>> \in (DOMAIN linsts) \X (1..2) :
     p \in DOMAIN linsts[i].args /\ linsts[i].args[p] = j}

UsesAsResult(j) == {c \in LCalls : LGot(c) /\ lcalls[c].inst = j}

C27_TransientNeverShared ==
  \A j \in Built(Transient) :
    Cardinality(UsesAsArgument(j)) + Cardinality(UsesAsResult(j)) <= 1


(***************************************************************************)
(* C28.  Parameters are resolved in declared order and fail-fast, in both  *)
(* engines.  Scope-based: a single Resolve of a registration whose first   *)
(* parameter has no registration, or a constructor that fails, returns an  *)
(* error (the parameter's, when the parameter's type is not the requested  *)
(* one), without the requested constructor having run, with nothing cached *)
(* for the requested identity and no constructor having run twice.         *)
(* Lifetime-based: no constructor is ever invoked with an argument whose   *)
(* resolution failed; an instance whose Init hook failed is the last one   *)
(* its ResolveNamed call built, and that call returned the hook's error;   *)
(* a failed call cached nothing for the node it was asked for.             *)
(***************************************************************************)
FirstParameterFails(id) ==
  LET d == DefaultOf(infos[id].constructor.in[1])
  IN d = 0 \/ ConstructorFails(infos[d].constructor)

FirstParameterError(id) ==
  IF DefaultOf(infos[id].constructor.in[1]) = 0 THEN "unregistered" ELSE "constructor"

FailsOnFirstParameter(c) ==
  /\ Len(calls) = 1 /\ Finished(c) /\ StoreAsSeenBy(c)
  /\ calls[c].target # 0
  /\ infos[calls[c].target].constructor.in # <<>>
  /\ FirstParameterFails(calls[c].target)

LBuiltBy(c) == {i \in DOMAIN linsts : linsts[i].call = c}

C28_FailFast ==
  /\ \A c \in Calls :
       FailsOnFirstParameter(c)
         => /\ calls[c].state = "err"
            /\ ~calls[c].ran
            /\ infos[calls[c].target].runs = 0
            /\ CachedBy(calls[c].target) = {}
            /\ \A id \in DOMAIN infos : infos[id].runs <= 1
            /\ infos[calls[c].target].constructor.in[1] # calls[c].typ
                 => calls[c].err = FirstParameterError(calls[c].target)
  /\ \A i \in DOMAIN linsts :
       \A p \in DOMAIN linsts[i].args :
         linsts[i].args[p] \in DOMAIN linsts /\ ~LInitFailed(linsts[i].args[p])
  /\ \A c \in LCalls :
       /\ \A i \in LBuiltBy(c) :
            LInitFailed(i)
              => /\ \A j \in LBuiltBy(c) : j <= i
                 /\ LFailedCall(c)
                 /\ lcalls[c].err = linsts[i].init
       /\ LFailedCall(c)
            => \A i \in LBuiltBy(c) : linsts[i].node = lcalls[c].node => i \notin LCached

C28_Witness ==
  \/ \E c \in Calls :
       /\ FailsOnFirstParameter(c)
       /\ Len(infos[calls[c].target].constructor.in) = 2
       /\ DefaultOf("A") # 0
       /\ infos[DefaultOf("A")].runs = 1
  \/ \E c \in LCalls :
       /\ LFailedCall(c)
       /\ registrations[lcalls[c].node] # NoReg
       /\ Len(registrations[lcalls[c].node].constructor.in) = 2
       /\ \E i \in LBuiltBy(c) : LInitFailed(i) /\ linsts[i].node # lcalls[c].node


(***************************************************************************)
(* C29.  Re-registering a Singleton node takes effect: a ResolveNamed call *)
(* that returns an instance of a node registered as a Singleton, the       *)
(* instance having been built from the Registration the node had when the  *)
(* constructor returned, returns an instance built by the constructor      *)
(* registered for the node at the time of the call.                        *)
(***************************************************************************)
ReturnsAtOnce(c) ==
  /\ Len(lcalls') = Len(lcalls) + 1
  /\ c = Len(lcalls')
  /\ lcalls'[c].state = "ok"
  /\ registrations[lcalls'[c].node] # NoReg
  /\ registrations[lcalls'[c].node].lifetime = Singleton
  /\ linsts[lcalls'[c].inst].current

C29_ReregistrationTakesEffect ==
  [][ \A c \in 1..MaxCalls :
        ReturnsAtOnce(c)
          => linsts[lcalls'[c].inst].reg.constructor
               = registrations[lcalls'[c].node].constructor ]_vars


(***************************************************************************)
(* C30.  Every read of Container.registrations is made under Container.mu: *)
(* while a RegisterNamedWithHooks call holds the write lock, no Start call *)
(* begins or continues its iteration over the registrations, no            *)
(* DestroyScope looks a Registration up, and the runtime reports no        *)
(* concurrent map access.                                                  *)
(***************************************************************************)
StartReads ==
  \/ lhist'.starts # lhist.starts
  \/ \E t \in Threads :
       work[t].op = "start" /\ work[t].frames = <<>> /\ work'[t] # work[t]

DestroyScopeReads ==
  \E s \in DOMAIN scopes :
    scopes[s].instances # EmptyResolved /\ scopes'[s].gen # scopes[s].gen

C30_RegistrationsReadUnderLock ==
  [][ WriteLocked => ~(StartReads \/ DestroyScopeReads \/ mu' = Fatal) ]_vars


(***************************************************************************)
(* C31.  The resolving set holds exactly the types marked by the Resolve   *)
(* frames still in progress: a marker stored by a Resolve call is deleted  *)
(* when that call returns, with an instance, an error or a panic, so that  *)
(* the set is empty whenever no Resolve call is in progress.               *)
(***************************************************************************)
MarkedInProgress ==
  UNION {{f.typ : f \in {g \in Frames(t) : g.marked}} : t \in Threads}

C31_ResolvingIsInProgress ==
  /\ resolving = MarkedInProgress
  /\ (\A t \in Threads : ~Busy(t)) => resolving = {}

\* Nothing is in progress, after a call that stored a marker returned an
\* error and a call that stored one ended in a panic.
C31_Witness ==
  /\ \A t \in Threads : ~Busy(t)
  /\ \E c \in Calls : calls[c].target # 0 /\ calls[c].state = "err"
  /\ \E c \in Calls : calls[c].target # 0 /\ calls[c].state = "panic"

====
